---- MODULE Spec2Model ----
(***************************************************************************)
(* wpm: the "upgrade" pipeline of src/main.go.  One process run fetches    *)
(* every addon of the first installation (Download), waits on a WaitGroup, *)
(* then plans and commits every addon's changes (PlanChanges, commit) and  *)
(* waits again.  Strings are sequences of one-character strings so that    *)
(* path.Split, path.Join, path.Dir and sort.Strings are computed as the Go *)
(* library computes them.                                                  *)
(***************************************************************************)
EXTENDS Integers, Sequences, FiniteSets, TLC

(***************************************************************************)
(* Bounds                                                                  *)
(***************************************************************************)
\* longest directory string the top-level walk of Download may build
MaxWalkLen == 16
\* number of successive "wpm upgrade" invocations that are followed
MaxRuns == 2
\* number of commits that the environment (permissions, disk) may fail
MaxEnvFail == 1

(***************************************************************************)
(* Strings: byte order, sort.Strings                                       *)
(***************************************************************************)
\* the characters in use, in ascending byte order
Alphabet ==
  <<"-", ".", "/", "B", "F", "O", "a", "b", "c", "d", "e", "g", "k", "l",
    "m", "o", "p", "r", "s", "u", "w", "x", "z">>

Ord(c) == CHOOSE i \in 1..Len(Alphabet) : Alphabet[i] = c

\* descending instead of ascending byte order
RECURSIVE StrLess_descending(_, _)
StrLess_descending(a, b) ==
  IF a = <<>> THEN FALSE
  ELSE IF b = <<>> THEN TRUE
  ELSE IF Head(a) = Head(b) THEN StrLess_descending(Tail(a), Tail(b))
  ELSE Ord(Head(a)) > Ord(Head(b))

RECURSIVE StrLess(_, _)
StrLess(a, b) ==
  IF b = <<>> THEN FALSE
  ELSE IF a = <<>> THEN TRUE
  ELSE IF Head(a) = Head(b) THEN StrLess(Tail(a), Tail(b))
  ELSE Ord(Head(a)) < Ord(Head(b))

RECURSIVE SortStrings(_)
SortStrings(S) ==
  IF S = {} THEN <<>>
  ELSE LET m == CHOOSE x \in S : \A y \in S \ {x} : StrLess(x, y)
       IN <<m>> \o SortStrings(S \ {m})

(***************************************************************************)
(* Package path: Split, Clean, Join, Dir                                   *)
(***************************************************************************)
Slash == <<"/">>
Dot == <<".">>
DotDot == <<".", ".">>

LastSlash(p) ==
  IF \E i \in 1..Len(p) : p[i] = "/"
  THEN CHOOSE i \in 1..Len(p) :
         p[i] = "/" /\ \A j \in (i + 1)..Len(p) : p[j] # "/"
  ELSE 0

\* path.Split: <<dir, file>>, dir keeps its trailing slash
Split(p) ==
  <<SubSeq(p, 1, LastSlash(p)), SubSeq(p, LastSlash(p) + 1, Len(p))>>

RECURSIVE Elems(_, _)
Elems(p, cur) ==
  IF p = <<>> THEN <<cur>>
  ELSE IF Head(p) = "/" THEN <<cur>> \o Elems(Tail(p), <<>>)
  ELSE Elems(Tail(p), Append(cur, Head(p)))

RECURSIVE CleanElems(_, _, _)
CleanElems(es, out, rooted) ==
  IF es = <<>> THEN out
  ELSE LET e == Head(es) IN
    IF e = <<>> \/ e = Dot THEN CleanElems(Tail(es), out, rooted)
    ELSE IF e = DotDot THEN
      IF out # <<>> /\ out[Len(out)] # DotDot
        THEN CleanElems(Tail(es), SubSeq(out, 1, Len(out) - 1), rooted)
      ELSE IF rooted THEN CleanElems(Tail(es), out, rooted)
      ELSE CleanElems(Tail(es), Append(out, e), rooted)
    ELSE CleanElems(Tail(es), Append(out, e), rooted)

RECURSIVE Glue(_)
Glue(es) ==
  IF es = <<>> THEN <<>>
  ELSE IF Len(es) = 1 THEN es[1]
  ELSE es[1] \o Slash \o Glue(Tail(es))

\* path.Clean
Clean(p) ==
  LET rooted == p # <<>> /\ p[1] = "/"
      out == CleanElems(Elems(p, <<>>), <<>>, rooted)
  IN IF rooted THEN Slash \o Glue(out)
     ELSE IF out = <<>> THEN Dot ELSE Glue(out)

\* path.Join of two elements: empty elements are ignored, the rest cleaned
Join(a, b) ==
  IF a = <<>> /\ b = <<>> THEN <<>>
  ELSE IF a = <<>> THEN Clean(b)
  ELSE IF b = <<>> THEN Clean(a)
  ELSE Clean(a \o Slash \o b)

\* path.Dir
Dir(p) == Clean(Split(p)[1])

(***************************************************************************)
(* Names and archives                                                      *)
(***************************************************************************)
P(a, b) == a \o Slash \o b

Foo == <<"F", "o", "o">>
FooX == <<"F", "o", "o", "-", "x">>
Bar == <<"B", "a", "r">>
Old == <<"O", "l", "d">>
Sub == <<"s", "u", "b">>
ALua == <<"a", ".", "l", "u", "a">>
BLua == <<"b", ".", "l", "u", "a">>
CLua == <<"c", ".", "l", "u", "a">>
Readme == <<"r", "e", "a", "d", "m", "e">>
Pkgs == <<"/", "p", "k", "g", "s">>

\* a nil *zip.Reader, and the reader of an archive
Nil == [isNil |-> TRUE, File |-> <<>>]
Reader(arc) == [isNil |-> FALSE, File |-> arc]

\* no disk recorded yet
NoDisk == <<>>

Entry(name, isDir, data) == [Name |-> name, IsDir |-> isDir, Data |-> data]

ArcFoo == <<Entry(P(Foo, ALua), FALSE, "a1"),
            Entry(P(P(Foo, Sub), BLua), FALSE, "b1")>>
ArcSib == <<Entry(Foo \o Slash, TRUE, ""),
            Entry(P(P(Foo, Sub), BLua), FALSE, "b1"),
            Entry(P(FooX, CLua), FALSE, "c1"),
            Entry(P(Foo, ALua), FALSE, "a1")>>
ArcEmpty == <<>>
ArcRoot == <<Entry(Readme, FALSE, "r1")>>
ArcBar == <<Entry(P(Bar, CLua), FALSE, "c1")>>
ArcFoo2 == <<Entry(P(Foo, ALua), FALSE, "a2")>>
ArcOld == <<Entry(P(Foo, ALua), FALSE, "a0"),
            Entry(P(Old, BLua), FALSE, "b0")>>

\* an archive whose entry names hold ".." segments: one that stays inside
\* its directory and one whose last segment is ".."
ArcDots == <<Entry(P(P(P(Foo, Sub), DotDot), ALua), FALSE, "a1"),
             Entry(P(Foo, DotDot), FALSE, "x1")>>

\* an archive whose only entry lies two directories deep
ArcX == <<Entry(P(P(FooX, Sub), CLua), FALSE, "c1")>>

\* the archive the remote index serves after the package was updated
Newer(arc) == IF arc = ArcOld THEN ArcFoo ELSE arc

(***************************************************************************)
(* Changes (commiters) and the filesystem                                  *)
(***************************************************************************)
fsRmdir(loc) == [op |-> "fsRmdir", loc |-> loc, src |-> <<>>, data |-> ""]
fsMkdir(loc) == [op |-> "fsMkdir", loc |-> loc, src |-> <<>>, data |-> ""]
fsWritefile(loc, data) ==
  [op |-> "fsWritefile", loc |-> loc, src |-> <<>>, data |-> data]
fsLink(src, dst) == [op |-> "fsLink", loc |-> dst, src |-> src, data |-> ""]

\* a filesystem is a function from the existing absolute paths to "dir" or
\* to the content of a regular file
IsDirAt(f, p) == p \in DOMAIN f /\ f[p] = "dir"
IsFileAt(f, p) == p \in DOMAIN f /\ f[p] # "dir"

IsUnder(a, q) ==
  IF a = Slash THEN q # Slash
  ELSE /\ Len(q) > Len(a) + 1
       /\ SubSeq(q, 1, Len(a)) = a
       /\ q[Len(a) + 1] = "/"

\* a removal that matches every path starting with the same characters
RemoveAll_prefix(f, loc) ==
  [q \in {r \in DOMAIN f : ~(Len(r) >= Len(loc) /\ SubSeq(r, 1, Len(loc)) = loc)}
     |-> f[q]]

\* os.RemoveAll: no error when the path does not exist
RemoveAll(f, loc) ==
  [q \in {r \in DOMAIN f : ~(r = loc \/ IsUnder(loc, r))} |-> f[q]]

WithNode(f, p, node) ==
  [q \in DOMAIN f \cup {p} |-> IF q = p THEN node ELSE f[q]]

\* the result of one commit on filesystem f when the environment lets the
\* system call through
commit(c, f) ==
  IF c.op = "fsRmdir" THEN [fs |-> RemoveAll(f, c.loc), ok |-> TRUE]
  ELSE IF c.op = "fsMkdir" THEN
    IF c.loc \notin DOMAIN f /\ IsDirAt(f, Dir(c.loc))
    THEN [fs |-> WithNode(f, c.loc, "dir"), ok |-> TRUE]
    ELSE [fs |-> f, ok |-> FALSE]
  ELSE IF c.op = "fsWritefile" THEN
    IF ~IsDirAt(f, c.loc) /\ IsDirAt(f, Dir(c.loc))
    THEN [fs |-> WithNode(f, c.loc, c.data), ok |-> TRUE]
    ELSE [fs |-> f, ok |-> FALSE]
  ELSE \* fsLink: os.Link refuses directories and existing targets
    IF IsFileAt(f, c.src) /\ c.loc \notin DOMAIN f /\ IsDirAt(f, Dir(c.loc))
    THEN [fs |-> WithNode(f, c.loc, f[c.src]), ok |-> TRUE]
    ELSE [fs |-> f, ok |-> FALSE]

(***************************************************************************)
(* Download: the top-level directory walk                                  *)
(***************************************************************************)
Spin == <<"spin">>

\* for { nxt := path.Join(dir, ".."); if nxt == "." { break }; dir = nxt }
\* Spin when the loop has no exit: nxt repeats, or keeps growing
RECURSIVE TopWalk(_)
TopWalk(dir) ==
  LET nxt == Join(dir, DotDot) IN
    IF nxt = Dot THEN dir
    ELSE IF nxt = dir \/ Len(nxt) > MaxWalkLen THEN Spin
    ELSE TopWalk(nxt)

\* the directory of each entry, without the walk up to the top
OwnedDirs_noWalk(arc) ==
  {Split(arc[i].Name)[1] : i \in {j \in 1..Len(arc) : arc[j].Name # Dot}}

\* dirs after the loop over sp.zipData.File
OwnedDirs(arc) ==
  {TopWalk(Split(arc[i].Name)[1]) : i \in {j \in 1..Len(arc) : arc[j].Name # Dot}}

\* the orders in which "for i := range dirs" may append the keys
Orders(S) ==
  {q \in [1..Cardinality(S) -> S] : \A i, j \in DOMAIN q : i # j => q[i] # q[j]}

(***************************************************************************)
(* PlanChanges                                                             *)
(***************************************************************************)
\* for pth != "." { dirs[pth] = true; pth = path.Dir(pth) }
RECURSIVE Ancestors(_)
Ancestors(pth) == IF pth = Dot THEN {} ELSE {pth} \cup Ancestors(Dir(pth))

\* only the directory of each entry, without walking up to its ancestors
NewDirs_leaves(arc) == {Dir(arc[i].Name) : i \in 1..Len(arc)} \ {Dot}

\* for _, f := range sp.zipData.File: dirs[dir] = yes for dir and every
\* ancestor of dir up to "."
NewDirs(arc) == UNION {Ancestors(Dir(arc[i].Name)) : i \in 1..Len(arc)}

\* for _, d := range sp.ownDirs { retval = append(retval, fsRmdir{...}) }
RECURSIVE Rmdirs(_, _)
Rmdirs(base, ds) ==
  IF ds = <<>> THEN <<>>
  ELSE <<fsRmdir(Join(base, Head(ds)))>> \o Rmdirs(base, Tail(ds))

\* for _, s := range dirSl { retval = append(retval, fsMkdir{...}) }
RECURSIVE Mkdirs(_, _)
Mkdirs(base, ds) ==
  IF ds = <<>> THEN <<>>
  ELSE <<fsMkdir(Join(base, Head(ds)))>> \o Mkdirs(base, Tail(ds))

RECURSIVE Writes(_, _)
Writes(base, arc) ==
  IF arc = <<>> THEN <<>>
  ELSE (IF Head(arc).IsDir THEN <<>>
        ELSE <<fsWritefile(Join(base, Head(arc).Name), Head(arc).Data)>>)
       \o Writes(base, Tail(arc))

\* an ignore case that falls through to the removal of the owned directories
PlanChanges_ignoreRemoves(sp, base) ==
  IF sp.Type \in {"curse", "wowace"} THEN
    IF sp.zipData = Nil THEN <<>>
    ELSE LET dirSl == SortStrings(NewDirs(sp.zipData.File))
         IN Rmdirs(base, sp.ownDirs) \o Mkdirs(base, dirSl)
              \o Writes(base, sp.zipData.File)
  ELSE IF sp.Type = "ignore" THEN Rmdirs(base, sp.ownDirs)
  ELSE IF sp.Type = "link" THEN
    <<fsRmdir(Join(base, sp.Name)), fsLink(sp.Location, Join(base, sp.Name))>>
  ELSE <<>>

PlanChanges(sp, base) ==
  IF sp.Type \in {"curse", "wowace"} THEN
    IF sp.zipData = Nil THEN <<>>
    ELSE LET dirSl == SortStrings(NewDirs(sp.zipData.File))
         IN Rmdirs(base, sp.ownDirs) \o Mkdirs(base, dirSl)
              \o Writes(base, sp.zipData.File)
  ELSE IF sp.Type = "ignore" THEN <<>>
  ELSE IF sp.Type = "link" THEN
    <<fsRmdir(Join(base, sp.Name)), fsLink(sp.Location, Join(base, sp.Name))>>
  ELSE <<>>

\* PlanChanges of the copy in src/unnamed/part_000: no case "link"
PlanChanges000(sp, base) ==
  IF sp.Type \in {"curse", "wowace"} THEN
    IF sp.zipData = Nil THEN <<>>
    ELSE LET dirSl == SortStrings(NewDirs(sp.zipData.File))
         IN Rmdirs(base, sp.ownDirs) \o Mkdirs(base, dirSl)
              \o Writes(base, sp.zipData.File)
  ELSE IF sp.Type = "ignore" THEN <<>>
  ELSE <<>>

\* the two copies of the program in the repository
Builds == {"main.go", "part_000"}

\* the types for which Download sets ownDirs to the addon's name
NamedKinds(b) == IF b = "main.go" THEN {"ignore", "link"} ELSE {"ignore"}

(***************************************************************************)
(* Installations, remote archives and initial disks                        *)
(***************************************************************************)
Base == <<"/", "w">>
PkgBar == P(Pkgs, Bar)

Addon(name, type, location) ==
  [Name |-> name, Type |-> type, Location |-> location]

Scenario(addons, arcs) == [Addons |-> addons, remote |-> arcs]

Scenarios ==
  { Scenario(<<Addon(Foo, "curse", <<>>)>>, <<ArcFoo>>),
    Scenario(<<Addon(Foo, "curse", <<>>), Addon(Bar, "wowace", <<>>)>>,
             <<ArcFoo, ArcBar>>),
    Scenario(<<Addon(Foo, "curse", <<>>), Addon(FooX, "curse", <<>>)>>,
             <<ArcFoo, ArcFoo2>>),
    Scenario(<<Addon(FooX, "wowace", <<>>)>>, <<ArcSib>>),
    Scenario(<<Addon(Old, "curse", <<>>), Addon(Sub, "ignore", <<>>)>>,
             <<ArcEmpty, <<>>>>),
    Scenario(<<Addon(Readme, "curse", <<>>), Addon(Bar, "wowace", <<>>)>>,
             <<ArcRoot, ArcBar>>),
    Scenario(<<Addon(Bar, "link", PkgBar), Addon(Foo, "wowace", <<>>)>>,
             <<<<>>, ArcFoo>>),
    Scenario(<<Addon(Foo, "curse", <<>>)>>, <<ArcOld>>),
    Scenario(<<Addon(Foo, "wowace", <<>>)>>, <<ArcDots>>),
    Scenario(<<Addon(Foo, "curse", <<>>), Addon(FooX, "wowace", <<>>)>>,
             <<ArcFoo2, ArcX>>) }

FsOf(nodes) == [p \in {n[1] : n \in nodes} |-> (CHOOSE n \in nodes : n[1] = p)[2]]

Disks ==
  { \* a fresh AddOns directory; the link source is a regular file
    FsOf({<<Slash, "dir">>, <<Base, "dir">>, <<Pkgs, "dir">>, <<PkgBar, "pk">>}),
    \* an earlier installation left content; the link source is a directory
    FsOf({<<Slash, "dir">>, <<Base, "dir">>, <<Pkgs, "dir">>, <<PkgBar, "dir">>,
          <<P(Base, Foo), "dir">>, <<P(P(Base, Foo), CLua), "zz">>,
          <<P(Base, Bar), "dir">>}),
    \* the AddOns directory does not exist
    FsOf({<<Slash, "dir">>, <<Pkgs, "dir">>}),
    \* a regular file sits where the addon directory goes
    FsOf({<<Slash, "dir">>, <<Base, "dir">>, <<P(Base, Foo), "zz">>}) }

(***************************************************************************)
(* State                                                                   *)
(***************************************************************************)
VARIABLES
  build,     \* which of the two copies of the program runs
  Addons,    \* m.Installations[0].Addons: Name, Type, Location of each
  remote,    \* the archive the remote index serves for each addon
  zipData,   \* sp.zipData of each addon, Nil or the reader of an archive
  ownDirs,   \* sp.ownDirs of each addon
  fs,        \* the disk
  mainpc,    \* position of main in case "upgrade"
  mi,        \* index of the range loop of main
  wg,        \* counter of the WaitGroup
  dl,        \* phase 1 goroutine of each addon
  p2,        \* phase 2 goroutine of each addon
  plan,      \* delta of each phase 2 goroutine
  log,       \* the commits each phase 2 goroutine has made, in order
  proc,      \* "running", "dying" (unrecovered panic), "exited" (status 2)
  run,       \* number of the current invocation
  outcome,   \* what happened to each addon's fetch in this run
  envFails,  \* commits failed by the environment so far
  prevOwn,   \* the ownDirs of each addon when the previous invocation ended, as sets
  fsStart,   \* the disk when this invocation started
  fsEnd,     \* the disk when the first invocation ended
  anyFail,   \* some fetch or commit has failed
  sameRemote \* the remote archives never changed between invocations

vars == <<build, Addons, remote, zipData, ownDirs, fs, mainpc, mi, wg, dl, p2, plan,
          log, proc, run, outcome, envFails, prevOwn, fsStart, fsEnd,
          anyFail, sameRemote>>

N == Len(Addons)
Range(q) == {q[i] : i \in DOMAIN q}
Ix == 1..N
IsArchiveKind(s) == Addons[s].Type \in {"curse", "wowace"}

\* the Specification value the methods see
Sp(s) == [Name |-> Addons[s].Name, Type |-> Addons[s].Type,
          Location |-> Addons[s].Location,
          zipData |-> zipData[s], ownDirs |-> ownDirs[s]]

\* state of a freshly started process: readConfig leaves zipData and
\* ownDirs at their zero values
Fresh(n) ==
  /\ zipData = [s \in 1..n |-> Nil]
  /\ ownDirs = [s \in 1..n |-> <<>>]
  /\ mainpc = "start"
  /\ mi = 1
  /\ wg = 0
  /\ dl = [s \in 1..n |-> "idle"]
  /\ p2 = [s \in 1..n |-> "idle"]
  /\ plan = [s \in 1..n |-> <<>>]
  /\ log = [s \in 1..n |-> <<>>]
  /\ proc = "running"
  /\ outcome = [s \in 1..n |-> "none"]

Init ==
  /\ build \in Builds
  /\ \E sc \in Scenarios : Addons = sc.Addons /\ remote = sc.remote
  /\ fs \in Disks
  /\ Fresh(Len(Addons))
  /\ run = 1
  /\ envFails = 0
  /\ prevOwn = [s \in 1..Len(Addons) |-> {}]
  /\ fsStart = fs
  /\ fsEnd = NoDisk
  /\ anyFail = FALSE
  /\ sameRemote = TRUE

(***************************************************************************)
(* main, case "upgrade"                                                    *)
(***************************************************************************)
Alive == proc # "exited"

\* a Wait that does not block
WaitReturns_always(w) == TRUE

\* wg.Wait returns when the counter is zero
WaitReturns(w) == w = 0

\* wg.Add(len(m.Installations[0].Addons))
Start ==
  /\ Alive /\ mainpc = "start"
  /\ wg' = N
  /\ mainpc' = "go1"
  /\ mi' = 1
  /\ UNCHANGED <<build, Addons, remote, zipData, ownDirs, fs, dl, p2, plan, log, proc,
                 run, outcome, envFails, prevOwn, fsStart, fsEnd, anyFail,
                 sameRemote>>

\* one iteration of the first loop: go func(adn) { defer wg.Done(); adn.Download() }
Go1 ==
  /\ Alive /\ mainpc = "go1" /\ mi <= N
  /\ dl' = [dl EXCEPT ![mi] = "running"]
  /\ mi' = mi + 1
  /\ UNCHANGED <<build, Addons, remote, zipData, ownDirs, fs, mainpc, wg, p2, plan,
                 log, proc, run, outcome, envFails, prevOwn, fsStart, fsEnd,
                 anyFail, sameRemote>>

\* wg.Wait(); wg = sync.WaitGroup{}
Wait1 ==
  /\ Alive /\ mainpc = "go1" /\ mi > N
  /\ WaitReturns(wg)
  /\ wg' = 0
  /\ mainpc' = "go2"
  /\ mi' = 1
  /\ UNCHANGED <<build, Addons, remote, zipData, ownDirs, fs, dl, p2, plan, log, proc,
                 run, outcome, envFails, prevOwn, fsStart, fsEnd, anyFail,
                 sameRemote>>

\* one iteration of the second loop: wg.Add(1); go func(adn) { ... }
Go2 ==
  /\ Alive /\ mainpc = "go2" /\ mi <= N
  /\ wg' = wg + 1
  /\ p2' = [p2 EXCEPT ![mi] = "spawned"]
  /\ mi' = mi + 1
  /\ UNCHANGED <<build, Addons, remote, zipData, ownDirs, fs, mainpc, dl, plan, log,
                 proc, run, outcome, envFails, prevOwn, fsStart, fsEnd,
                 anyFail, sameRemote>>

\* the second wg.Wait(); main returns
Wait2 ==
  /\ Alive /\ mainpc = "go2" /\ mi > N
  /\ WaitReturns(wg)
  /\ mainpc' = "done"
  /\ fsEnd' = IF run = 1 THEN fs ELSE fsEnd
  /\ UNCHANGED <<build, Addons, remote, zipData, ownDirs, fs, mi, wg, dl, p2, plan,
                 log, proc, run, outcome, envFails, prevOwn, fsStart, anyFail,
                 sameRemote>>

(***************************************************************************)
(* Phase 1 goroutine: Download                                             *)
(***************************************************************************)
\* what the network can do to the fetch of an archive-kind addon
FetchOutcomes == {"ok", "indexFail", "docFail", "noFile", "zipGetFail", "zipParseFail"}
\* outcomes on which Download returns before touching sp.zipData.File
EarlyReturn == {"indexFail", "docFail"}
\* outcomes that leave sp.zipData nil and reach the range over sp.zipData.File
NilZip == {"noFile", "zipGetFail", "zipParseFail"}

\* a closure that captures the loop variable instead: every goroutine sees
\* the last element
adnOf_captured(i) == N

\* go func(adn *Specification) {...}(adn): the goroutine started for element
\* i of c.Addons works on that element, handed over as an argument
adnOf(i) == i

DownloadArchive(g, s) ==
  \E o \in FetchOutcomes :
    /\ outcome' = [outcome EXCEPT ![s] = o]
    /\ anyFail' = (anyFail \/ o # "ok")
    /\ IF o \in EarlyReturn THEN
         /\ dl' = [dl EXCEPT ![g] = "returned"]
         /\ wg' = wg - 1
         /\ UNCHANGED <<zipData, ownDirs, proc>>
       ELSE IF o \in NilZip THEN
         \* nil pointer dereference: the deferred wg.Done runs, then the
         \* runtime takes the whole process down
         /\ dl' = [dl EXCEPT ![g] = "panicked"]
         /\ wg' = wg - 1
         /\ proc' = "dying"
         /\ UNCHANGED <<zipData, ownDirs>>
       ELSE
         /\ zipData' = [zipData EXCEPT ![s] = Reader(remote[s])]
         /\ IF Spin \in OwnedDirs(remote[s]) THEN
              \* the walk never reaches "."; wg.Done is never called
              /\ dl' = [dl EXCEPT ![g] = "spinning"]
              /\ UNCHANGED <<ownDirs, wg, proc>>
            ELSE
              /\ \E q \in Orders(OwnedDirs(remote[s])) :
                   ownDirs' = [ownDirs EXCEPT ![s] = q]
              /\ dl' = [dl EXCEPT ![g] = "returned"]
              /\ wg' = wg - 1
              /\ UNCHANGED proc

DownloadOther(g, s) ==
  /\ ownDirs' = [ownDirs EXCEPT ![s] =
                   IF Addons[s].Type \in NamedKinds(build)
                   THEN <<Addons[s].Name>> ELSE @]
  /\ outcome' = [outcome EXCEPT ![s] = "ok"]
  /\ dl' = [dl EXCEPT ![g] = "returned"]
  /\ wg' = wg - 1
  /\ UNCHANGED <<zipData, proc, anyFail>>

Download(g) ==
  /\ Alive /\ dl[g] = "running"
  /\ IF IsArchiveKind(adnOf(g)) THEN DownloadArchive(g, adnOf(g))
                                ELSE DownloadOther(g, adnOf(g))
  /\ UNCHANGED <<build, Addons, remote, fs, mainpc, mi, p2, plan, log, run, envFails,
                 prevOwn, fsStart, fsEnd, sameRemote>>

\* the runtime prints the panic and exits with status 2
Crash ==
  /\ proc = "dying" /\ mainpc # "done"
  /\ proc' = "exited"
  /\ UNCHANGED <<build, Addons, remote, zipData, ownDirs, fs, mainpc, mi, wg, dl, p2,
                 plan, log, run, outcome, envFails, prevOwn, fsStart, fsEnd,
                 anyFail, sameRemote>>

(***************************************************************************)
(* Phase 2 goroutine: PlanChanges, then commit in order                    *)
(***************************************************************************)
\* a loop that stops at the first failed commit
ContinueAfter_abort(ok) == ok

\* for _, d := range delta { d.commit() }: the error is dropped
ContinueAfter(ok) == TRUE

Plan(s) ==
  /\ Alive /\ p2[s] = "spawned"
  /\ LET adn == Sp(adnOf(s))
         delta == IF build = "main.go" THEN PlanChanges(adn, Base)
                   ELSE PlanChanges000(adn, Base) IN
       /\ plan' = [plan EXCEPT ![s] = delta]
       /\ IF delta = <<>>
          THEN p2' = [p2 EXCEPT ![s] = "done"] /\ wg' = wg - 1
          ELSE p2' = [p2 EXCEPT ![s] = "commit"] /\ UNCHANGED wg
  /\ UNCHANGED <<build, Addons, remote, zipData, ownDirs, fs, mainpc, mi, dl, log,
                 proc, run, outcome, envFails, prevOwn, fsStart, fsEnd,
                 anyFail, sameRemote>>

Commit(s) ==
  /\ Alive /\ p2[s] = "commit"
  /\ LET i == Len(log[s]) + 1
         c == plan[s][i]
     IN \E env \in {TRUE} \cup (IF envFails < MaxEnvFail THEN {FALSE} ELSE {}) :
          LET r == IF env THEN commit(c, fs) ELSE [fs |-> fs, ok |-> FALSE] IN
            /\ fs' = r.fs
            /\ log' = [log EXCEPT ![s] = Append(@, [c |-> c, ok |-> r.ok])]
            /\ envFails' = IF env THEN envFails ELSE envFails + 1
            /\ anyFail' = (anyFail \/ ~r.ok)
            /\ IF i = Len(plan[s]) \/ ~ContinueAfter(r.ok)
               THEN p2' = [p2 EXCEPT ![s] = "done"] /\ wg' = wg - 1
               ELSE UNCHANGED <<p2, wg>>
  /\ UNCHANGED <<build, Addons, remote, zipData, ownDirs, mainpc, mi, dl, plan, proc,
                 run, outcome, prevOwn, fsStart, fsEnd, sameRemote>>

(***************************************************************************)
(* The operator runs "wpm upgrade" again, after a run without any failure  *)
(***************************************************************************)
NextRun ==
  /\ mainpc = "done" /\ proc = "running" /\ run < MaxRuns
  /\ ~anyFail
  /\ run' = run + 1
  /\ \E r \in {remote, [s \in Ix |-> Newer(remote[s])]} :
       /\ remote' = r
       /\ sameRemote' = (sameRemote /\ r = remote)
  /\ prevOwn' = [s \in Ix |-> Range(ownDirs[s])]
  /\ fsStart' = fs
  /\ zipData' = [s \in Ix |-> Nil]
  /\ ownDirs' = [s \in Ix |-> <<>>]
  /\ mainpc' = "start"
  /\ mi' = 1
  /\ wg' = 0
  /\ dl' = [s \in Ix |-> "idle"]
  /\ p2' = [s \in Ix |-> "idle"]
  /\ plan' = [s \in Ix |-> <<>>]
  /\ log' = [s \in Ix |-> <<>>]
  /\ outcome' = [s \in Ix |-> "none"]
  /\ UNCHANGED <<build, Addons, fs, proc, envFails, fsEnd, anyFail>>

Next ==
  \/ Start
  \/ Go1
  \/ Wait1
  \/ Go2
  \/ Wait2
  \/ \E s \in Ix : Download(s)
  \/ Crash
  \/ \E s \in Ix : Plan(s)
  \/ \E s \in Ix : Commit(s)
  \/ NextRun

Spec == Init /\ [][Next]_vars

(***************************************************************************)
(* Properties                                                              *)
(***************************************************************************)
Planned(s) == p2[s] \in {"commit", "done"}
FetchFailed(s) == outcome[s] \in FetchOutcomes \ {"ok"}
HasArchive(s) == IsArchiveKind(s) /\ ~zipData[s].isNil

\* the first segment of the directory of an entry path, and the distinct
\* first segments of an archive
FirstSeg(name) == Elems(Dir(name), <<>>)[1]
FirstSegs(arc) ==
  {FirstSeg(arc[i].Name) : i \in {j \in 1..Len(arc) : arc[j].Name # Dot}}

RmTargets(delta) ==
  {delta[i].loc : i \in {j \in DOMAIN delta : delta[j].op = "fsRmdir"}}

\* C1: no phase 2 goroutine exists, hence no PlanChanges call and no commit
\* has started, before the Download of every addon has ended.
C1_FetchBarrier ==
  \A s \in Ix :
    (p2[s] # "idle" \/ plan[s] # <<>> \/ log[s] # <<>>)
      => \A t \in Ix : dl[t] \in {"returned", "panicked"}

C1_Witness ==
  /\ N >= 2
  /\ \E s, t \in Ix : s # t /\ log[s] # <<>> /\ p2[t] = "commit"
                      /\ outcome[s] = "ok" /\ outcome[t] = "ok"

\* C2: the plan of an archive-kind addon is one RemoveTree per distinct
\* top-level directory of the archive, then one MakeDir per ancestor
\* directory in ascending order, then one WriteFile per file entry in
\* archive order, and nothing else.
C2_PlanExact ==
  \A s \in Ix :
    (Planned(s) /\ HasArchive(s)) =>
      \E q \in Orders(FirstSegs(zipData[s].File)) :
        plan[s] = Rmdirs(Base, q)
                    \o Mkdirs(Base, SortStrings(NewDirs(zipData[s].File)))
                    \o Writes(Base, zipData[s].File)

C4_FetchFailureIsolated ==
  (proc = "exited" \/ mainpc = "done") =>
    \A x, y \in Ix :
      (x # y /\ FetchFailed(x)) =>
        (p2[y] = "done" /\ Len(log[y]) = Len(plan[y]))

C6_RunCompletes ==
  /\ proc = "exited" => mainpc = "done"
  /\ \A s \in Ix : dl[s] # "spinning"

\* C7: the owned directories Download computes do not contain ".", and are
\* the distinct first path segments of the entries, each exactly once.
C7_TopLevelDirs ==
  \A s \in Ix :
    (IsArchiveKind(s) /\ dl[s] = "returned" /\ outcome[s] = "ok") =>
      /\ Dot \notin Range(ownDirs[s])
      /\ Range(ownDirs[s]) = FirstSegs(zipData[s].File)
      /\ Len(ownDirs[s]) = Cardinality(FirstSegs(zipData[s].File))

\* C8: in a plan, the MakeDir of a directory comes before the MakeDir of
\* every directory below it.
C8_ParentsFirst ==
  \A s \in Ix :
    \A i, j \in DOMAIN plan[s] :
      (/\ plan[s][i].op = "fsMkdir"
       /\ plan[s][j].op = "fsMkdir"
       /\ IsUnder(plan[s][i].loc, plan[s][j].loc)) => i < j

C8_Witness ==
  \E s \in Ix :
    \E i, j, k \in DOMAIN plan[s] :
      /\ i < j /\ j < k
      /\ plan[s][i] = fsMkdir(P(Base, Foo))
      /\ plan[s][j] = fsMkdir(P(Base, FooX))
      /\ plan[s][k] = fsMkdir(P(P(Base, Foo), Sub))

\* C9: the commits of a phase 2 goroutine are the changes of its plan, in
\* the plan's order, each once; a failed commit does not end the sequence:
\* when the goroutine is done, every change has been committed.
C9_CommitsInOrder ==
  \A s \in Ix :
    /\ Len(log[s]) <= Len(plan[s])
    /\ \A k \in DOMAIN log[s] : log[s][k].c = plan[s][k]
    /\ p2[s] = "done" => Len(log[s]) = Len(plan[s])

C9_Witness ==
  \E s \in Ix :
    /\ p2[s] = "done"
    /\ \E k \in DOMAIN log[s] :
         k < Len(log[s]) /\ ~log[s][k].ok /\ log[s][k + 1].ok

\* C10: with unchanged remote archives and no failed fetch or commit, the
\* disk after the second run equals the disk after the first run.
C10_Idempotent ==
  (run = 2 /\ mainpc = "done" /\ ~anyFail /\ sameRemote) => fs = fsEnd

(***************************************************************************)
(* Convergence, ownership, link and ignore plans                           *)
(***************************************************************************)
\* the commits of task s so far all succeeded, and the plan is through
CommittedClean(s) ==
  /\ p2[s] = "done"
  /\ Len(log[s]) = Len(plan[s])
  /\ \A k \in DOMAIN log[s] : log[s][k].ok

\* the directories specification s owns now or owned in the run before
OwnRoots(s) == {Join(Base, d) : d \in Range(ownDirs[s]) \cup prevOwn[s]}

\* what is on disk at or below those directories
DiskOf(s) ==
  {<<p, fs[p]>> : p \in {q \in DOMAIN fs :
                           \E r \in OwnRoots(s) : q = r \/ IsUnder(r, q)}}

\* the directories and files an archive describes, below the base directory
FileSet(arc) ==
  {<<Join(Base, d), "dir">> : d \in NewDirs(arc)}
    \cup {<<Join(Base, arc[i].Name), arc[i].Data>> :
             i \in {j \in 1..Len(arc) : ~arc[j].IsDir}}

\* C11: once the plan of an archive-kind specification is committed without
\* a failed commit, what is on disk in the directories of that specification
\* (those it owns and those an earlier version of its archive left) is
\* exactly the file set of the new archive.
C11_Converges ==
  \A s \in Ix :
    (HasArchive(s) /\ CommittedClean(s)) => DiskOf(s) = FileSet(zipData[s].File)

\* the base-directory paths of the directories specification s owns
Owned(s) == {Join(Base, d) : d \in Range(ownDirs[s])}

\* C12: in every reachable state no directory is in the ownedDirectories of
\* two different specifications.
C12_OwnershipDisjoint ==
  \A s, t \in Ix : s # t => Owned(s) \cap Owned(t) = {}

\* C13: the plan of a link-kind specification with name N and location L is
\* exactly RemoveTree(base/N), Link(L, base/N).
C13_LinkPlan ==
  \A s \in Ix :
    (Addons[s].Type = "link" /\ Planned(s)) =>
      plan[s] = <<fsRmdir(Join(Base, Addons[s].Name)),
                  fsLink(Addons[s].Location, Join(Base, Addons[s].Name))>>

\* C14: an ignore-kind specification plans the empty sequence, also after
\* Download has set its ownedDirectories to its name, and its task commits
\* nothing.
C14_IgnorePlansNothing ==
  \A s \in Ix :
    (Addons[s].Type = "ignore" /\ Planned(s)) =>
      plan[s] = <<>> /\ log[s] = <<>> /\ p2[s] = "done"

C14_Witness ==
  \E s \in Ix :
    /\ Addons[s].Type = "ignore" /\ p2[s] = "done"
    /\ ownDirs[s] = <<Addons[s].Name>>
    /\ mainpc = "done"

(***************************************************************************)
(* Fetch phase frame, plan structure, walk termination                     *)
(***************************************************************************)
\* C15: the fetch phase changes nothing on disk: as long as a fetch task has
\* not ended, and at the first barrier, the disk is the disk the run started
\* with.
C15_FetchLeavesDisk ==
  (\/ mainpc \in {"start", "go1"}
   \/ \E s \in Ix : dl[s] \in {"idle", "running", "spinning"}
   \/ mainpc = "go2" /\ \A s \in Ix : p2[s] = "idle")
    => fs = fsStart

C15_Witness ==
  /\ mainpc = "go2" /\ run = 2 /\ N = 2
  /\ \A s \in Ix : p2[s] = "idle" /\ dl[s] = "returned" /\ ownDirs[s] # <<>>
  /\ \E s \in Ix : HasArchive(s)

IsCreate(c) == c.op \in {"fsMkdir", "fsWritefile"}
Removes(c, p) == c.op = "fsRmdir" /\ (c.loc = p \/ IsUnder(c.loc, p))

\* C16: in the plan of an archive-kind specification the parent of every
\* MakeDir and WriteFile target below the base directory is the base
\* directory or the target of an earlier MakeDir of the same plan that no
\* RemoveTree in between removes.
C16_ParentsPlanned ==
  \A s \in Ix :
    (HasArchive(s) /\ Planned(s)) =>
      \A i \in DOMAIN plan[s] :
        (IsCreate(plan[s][i]) /\ IsUnder(Base, plan[s][i].loc)) =>
          LET parent == Dir(plan[s][i].loc) IN
            \/ parent = Base
            \/ \E j \in 1..(i - 1) :
                 /\ plan[s][j] = fsMkdir(parent)
                 /\ \A k \in (j + 1)..(i - 1) : ~Removes(plan[s][k], parent)

C16_Witness ==
  \E s \in Ix :
    /\ HasArchive(s) /\ CommittedClean(s) /\ IsDirAt(fsStart, Base)
    /\ \E i \in DOMAIN plan[s] :
         /\ plan[s][i].op = "fsWritefile"
         /\ Dir(Dir(plan[s][i].loc)) # Base
         /\ IsFileAt(fs, plan[s][i].loc)

\* C17: the walk up to the top-level directory ends for every entry path,
\* also for a file directly at the root of the archive.
C17_WalkTerminates == \A s \in Ix : dl[s] # "spinning"

\* C18: every MakeDir and WriteFile of an archive-kind plan targets a path
\* at or below a directory that an earlier RemoveTree of the same plan
\* removes, for every set of entry paths.
C18_WritesInsideOwned ==
  \A s \in Ix :
    (HasArchive(s) /\ Planned(s)) =>
      \A i \in DOMAIN plan[s] :
        IsCreate(plan[s][i]) =>
          \E j \in 1..(i - 1) : Removes(plan[s][j], plan[s][i].loc)

(***************************************************************************)
(* Interleavings of the second phase, and what a task touches              *)
(***************************************************************************)
\* the disk after the changes of delta are committed one after the other
RECURSIVE ApplyPlan(_, _)
ApplyPlan(f, delta) ==
  IF delta = <<>> THEN f ELSE ApplyPlan(commit(Head(delta), f).fs, Tail(delta))

\* the disk after the tasks 1..n ran one after the other, in list order
RECURSIVE OneByOne(_, _)
OneByOne(f, n) ==
  IF n = 0 THEN f ELSE ApplyPlan(OneByOne(f, n - 1), plan[n])

OwnedApart == \A s, t \in Ix : s # t => Owned(s) \cap Owned(t) = {}

\* C19: when the ownedDirectories of the specifications are pairwise
\* disjoint after the fetch phase, the disk at the second barrier is the one
\* a one-by-one execution of the plans gives, whatever the interleaving of
\* the commits was.
C19_DisjointOrderFree ==
  (mainpc = "done" /\ envFails = 0 /\ OwnedApart) => fs = OneByOne(fsStart, N)

C19_Witness ==
  /\ mainpc = "done" /\ envFails = 0 /\ OwnedApart /\ N = 2
  /\ \A s \in Ix : Len(log[s]) > 1
  /\ fs # fsStart

\* with a shared owned directory some interleaving ends on another disk than
\* the one-by-one execution
C19_SharedOrderShows ==
  /\ mainpc = "done" /\ envFails = 0 /\ ~OwnedApart
  /\ fs # OneByOne(fsStart, N)

\* C20: a task writes only the in-memory state of its own specification:
\* zipData and ownedDirectories of a specification change only in the step
\* in which its own fetch task ends, never after the first barrier, and the
\* plan a task stores is the plan of its own specification.
C20_OwnStateOnly ==
  [][run' = run =>
       /\ \A s \in Ix :
            (ownDirs'[s] # ownDirs[s] \/ zipData'[s] # zipData[s]) =>
              (dl[s] = "running" /\ dl'[s] # "running")
       /\ mainpc \in {"go2", "done"} => ownDirs' = ownDirs
       /\ \A s \in Ix :
            p2'[s] # p2[s] /\ p2[s] = "spawned" =>
              plan'[s] = IF build = "main.go" THEN PlanChanges(Sp(s), Base)
                         ELSE PlanChanges000(Sp(s), Base)]_vars

C20_Witness ==
  /\ N = 2 /\ mainpc = "done"
  /\ \A s \in Ix : ownDirs[s] # <<>> /\ p2[s] = "done" /\ plan[s] # <<>>
  /\ ownDirs[1] # ownDirs[2]

====
